---- MODULE Spec2Model ----
(***************************************************************************)
(* Model of the channel lifecycle engine of channelbot (bot.py, db.py,     *)
(* data.py): the store of managed channels, the memoized lock factory,     *)
(* the voice-state event handlers, the commands that write the store and   *)
(* the reconciliation pass (update_task).                                   *)
(*                                                                         *)
(* Scheduling is asyncio's: a coroutine runs without interruption until it *)
(* awaits a platform call or a contended lock.  Every action below is one  *)
(* such uninterrupted segment.  A platform call takes effect when it       *)
(* returns, i.e. at the start of the segment that resumes its caller.      *)
(***************************************************************************)
EXTENDS Integers, Sequences, FiniteSets, TLC

\* ------------------------------------------------------------------ bounds
\* Channel ids the platform ever hands out (1 is the spawner made at start).
MaxId == 4
\* The clock runs from 0 to MaxTime.
MaxTime == 1
\* Largest hold_until a cbhold may store.
MaxHold == 2
\* Handler tasks (on_voice_state_update) alive at one time.
MaxHandlers == 2
\* Channel changes the members make on their own over a run.
MaxMoves == 2
\* Channel changes whose voice-state event the gateway loses, over a run.
MaxLostMoves == 1
\* Commands that write the store over a run.
MaxCommands == 2
\* Platform calls that fail over a run.
MaxFails == 1
\* Largest channel_number among the children persisted at start.
MaxNumber == 4
\* Capacity of the memoized lock factory.  The program's capacity is 64
\* (lru_cache(maxsize=64)); the model keeps the eviction rule and scales the
\* capacity down so that more identities than the capacity can be locked.
LockCacheSize == 1

\* voice_channel.members lists the occupants in this order.
MemberOrder == <<"m1", "m2">>
Members == {MemberOrder[i] : i \in DOMAIN MemberOrder}
Ids == 1..MaxId
HoldDurations == {1}

\* ------------------------------------------------------- data.py: the types
SPAWNER == "SPAWNER"
CHILD == "CHILD"
IMPORT == "IMPORT"
\* Optional fields: None is modelled by a value outside the field's range.
NoSpawner == 0
NoNumber == -1
NoHold == -1

\* The default template "#${no} Talk [${game}]", as string.Template sees it:
\* literal text and named placeholders.
Lit(s) == [ph |-> FALSE, text |-> s]
Ph(n) == [ph |-> TRUE, text |-> n]
DefaultTemplate == <<Lit("#"), Ph("no"), Lit(" Talk ["), Ph("game"), Lit("]")>>

\* ChannelConfig flattened into the ManagedChannel record that holds it.
ManagedChannel(id, tpl, type, spawner, number, hold) ==
    [id |-> id, template |-> tpl, channel_type |-> type, spawner |-> spawner,
     channel_number |-> number, hold_until |-> hold]

\* Stands for "no record" where a record is expected (a KeyError).
NoRec == ManagedChannel(0, <<>>, "NONE", NoSpawner, NoNumber, NoHold)

SpawnerId == 1
\* The store and the platform persist over restarts: at start there is one
\* child left from an earlier run, numbered 2 (number 1 was freed), with m1
\* in it.
FirstChild == 2
FirstChildNumber == 2
SpawnerName == "+ Spawn Channel"

\* An activity as discord reports it: its class (Game, Activity, Streaming,
\* CustomActivity), its ActivityType and its name.
Activity(cls, type, name) == [cls |-> cls, type |-> type, name |-> name]

\* The presences at start: m1 plays a game, m2 has no activity.
DefaultPresence ==
    [m \in Members |->
        IF m = "m1" THEN <<Activity("Game", "playing", "Chess")>> ELSE <<>>]

\* What a member's activities can be: none, a Game, a rich-presence Activity
\* of type playing, a Streaming, two Games.
Presences ==
    {<<>>,
     <<Activity("Game", "playing", "Chess")>>,
     <<Activity("Activity", "playing", "Go")>>,
     <<Activity("Streaming", "streaming", "Live")>>,
     <<Activity("Game", "playing", "Chess"), Activity("Game", "playing", "Go")>>}

\* The difference between the local time of the process and UTC, in units of
\* the clock, at start: the process runs in UTC.
DefaultUtcOffset == 0

\* Templates: the default, one without placeholders, one with the
\* placeholders in another order, a malformed one ("Room ${}") and one with
\* an unknown placeholder ("${x} ${game}").
Templates ==
    {DefaultTemplate,
     <<Lit("Room")>>,
     <<Ph("game"), Lit(" #"), Ph("no")>>,
     <<Lit("Room "), Ph("")>>,
     <<Ph("x"), Lit(" "), Ph("game")>>}

\* Every placeholder of the template is no or game.
WellFormed(tpl) ==
    \A i \in DOMAIN tpl : tpl[i].ph => tpl[i].text \in {"no", "game"}

\* UTC offsets, in hours, of the local time zones a bot process runs in.
UtcOffsets == {-1, 0, 1}

\* ------------------------------------------------------------ small helpers
Range(s) == {s[i] : i \in DOMAIN s}

Min(S) == CHOOSE x \in S : \A y \in S : x <= y

NumStr(n) == IF n = NoNumber THEN "None" ELSE ToString(n)

\* The exception string.Template.substitute(no=.., game=..) raises on template
\* tpl, "" for none: ValueError on a malformed placeholder ("${}"), KeyError
\* on a placeholder that is neither no nor game, whichever comes first.
TemplateError(tpl) ==
    LET bad == {i \in DOMAIN tpl : tpl[i].ph /\ tpl[i].text \notin {"no", "game"}}
    IN IF bad = {} THEN ""
       ELSE IF tpl[Min(bad)].text = "" THEN "ValueError" ELSE "KeyError"

\* The substitution of a template that raises nothing.
RECURSIVE Substitute(_, _, _)
Substitute(tpl, no, game) ==
    IF tpl = <<>> THEN ""
    ELSE LET tok == Head(tpl)
             txt == IF ~tok.ph THEN tok.text
                    ELSE IF tok.text = "no" THEN NumStr(no) ELSE game
         IN txt \o Substitute(Tail(tpl), no, game)

RECURSIVE RawTemplate(_)
RawTemplate(tpl) ==
    IF tpl = <<>> THEN ""
    ELSE LET tok == Head(tpl)
         IN (IF tok.ph THEN "${" \o tok.text \o "}" ELSE tok.text)
            \o RawTemplate(Tail(tpl))

\* The rendering without its except clause: the exception comes out.
make_channel_name_uncaught(rec, game) ==
    IF TemplateError(rec.template) = ""
    THEN Substitute(rec.template, rec.channel_number, game)
    ELSE TemplateError(rec.template)

make_channel_name(rec, game) ==
    IF TemplateError(rec.template) \notin {"ValueError", "KeyError"}
    THEN Substitute(rec.template, rec.channel_number, game)
    ELSE RawTemplate(rec.template)

\* The same without the IMPORT case.
is_expired_no_import(rec, now) ==
    rec.hold_until = NoHold \/ now >= rec.hold_until

is_expired(rec, now) ==
    IF rec.channel_type = IMPORT THEN FALSE
    ELSE rec.hold_until = NoHold \/ now >= rec.hold_until

\* ------------------------------------------------------------- db.py: store
\* The store is TinyDB's table: documents in insertion order.
HasChannel(store, id) == \E i \in DOMAIN store : store[i].id = id

get_channel(store, id) ==
    IF HasChannel(store, id)
    THEN store[CHOOSE i \in DOMAIN store : store[i].id = id]
    ELSE NoRec

\* The store without the first document of identity id (TinyDB's get returns
\* the first match, remove drops that document).
Without(store, id) ==
    IF ~HasChannel(store, id) THEN store
    ELSE LET i == Min({k \in DOMAIN store : store[k].id = id})
         IN SubSeq(store, 1, i - 1) \o SubSeq(store, i + 1, Len(store))

\* remove_channel: the caller checks HasChannel for the KeyError.
remove_channel(store, id) == Without(store, id)

\* The insert without the removal of the old record.
insert_channel_append(store, rec) == Append(store, rec)

\* insert_channel: remove the old record if there is one, then insert.
insert_channel(store, rec) == Append(Without(store, rec.id), rec)

RECURSIVE SortedInsert(_, _)
SortedInsert(sorted, r) ==
    IF sorted = <<>> THEN <<r>>
    ELSE IF r.channel_number < Head(sorted).channel_number
         THEN <<r>> \o sorted
         ELSE <<Head(sorted)>> \o SortedInsert(Tail(sorted), r)

RECURSIVE SortByNumber(_)
SortByNumber(s) ==
    IF s = <<>> THEN <<>>
    ELSE SortedInsert(SortByNumber(SubSeq(s, 1, Len(s) - 1)), s[Len(s)])

get_children(store, spawner) ==
    SortByNumber(SelectSeq(store,
        LAMBDA c : c.spawner # NoSpawner /\ c.spawner = spawner.id))

scan(store) == SelectSeq(store, LAMBDA r : r.id > 0)

\* --------------------------------------------- spawn_channel: the numbering
RECURSIVE FirstGap(_, _, _)
FirstGap(i, stop, numbers) ==
    IF i >= stop THEN stop
    ELSE IF i \notin Range(numbers) THEN i
    ELSE FirstGap(i + 1, stop, numbers)

\* A monotonically increasing counter: one more than the number of siblings.
next_number_counter(channel_numbers) == Len(channel_numbers) + 1

\* channel_number = len + 1; for i in range(1, channel_number): first i not in
next_channel_number(channel_numbers) ==
    FirstGap(1, Len(channel_numbers) + 1, channel_numbers)

\* ------------------------------------------------------------------- state
VARIABLES
    store,      \* ChannelDatabase: the sequence of ManagedChannel documents
    cache,      \* lru_cache of lock(): the cached Lock of each key, least recent first
    queue,      \* asyncio.Lock: the tasks waiting for the Lock a task holds, FIFO
    tasks,      \* the coroutines: the update loop and the handler tasks
    exists,     \* platform: which channel ids are live voice channels
    chName,     \* platform: the name of each channel
    voice,      \* platform: the voice channel each member is in (0: none)
    lastEvt,    \* platform: each member's latest voice-state change
    nextId,     \* platform: the next channel id it hands out
    now,        \* datetime.utcnow().timestamp()
    guild,      \* platform: whether bot.get_guild finds the guild
    tz,         \* the local time of the process minus UTC
    presence,   \* platform: member.activities of each member
    moves,      \* how many times members have changed channel so far
    cmds,       \* how many commands and manual deletions there were so far
    fails,      \* how many platform calls have failed so far
    spawned,    \* per member: children cloned for it since it last changed channel
    raised      \* the exception that ended a task in the latest step, if any

vars == <<store, cache, queue, tasks, exists, chName, voice, lastEvt,
          nextId, now, guild, tz, presence, moves, cmds, fails, spawned, raised>>

\* member.activities
Activities(m) == presence[m]

\* Task 1 is update_loop (bot.loop.create_task); the others are handler tasks.
LoopTask == 1
NoTask == 0
Tasks == 1..(MaxHandlers + 1)
Handlers == Tasks \ {LoopTask}

IdleTask ==
    [kind |-> "idle", pc |-> "idle", phase |-> "", bef |-> 0, aft |-> 0,
     rec |-> NoRec, cs |-> FALSE, snap |-> <<>>, mems |-> <<>>, sibs |-> <<>>,
     num |-> 0, newc |-> 0, j |-> 0, nm |-> ""]

SleepingLoop == [IdleTask EXCEPT !.kind = "loop", !.pc = "sleep"]
DeadLoop == [IdleTask EXCEPT !.kind = "loop", !.pc = "dead"]

\* No exception: the fields of an exception report, empty.
NoExc == [exc |-> "", kind |-> "", phase |-> "", left |-> 0]

\* The whole state as one value, so that a coroutine segment is a function
\* from state to state.
St ==
    [store |-> store, cache |-> cache, queue |-> queue,
     tasks |-> tasks, exists |-> exists, chName |-> chName, voice |-> voice,
     lastEvt |-> lastEvt, nextId |-> nextId, now |-> now, guild |-> guild,
     tz |-> tz, presence |-> presence, moves |-> moves,
     cmds |-> cmds, fails |-> fails,
     spawned |-> spawned, raised |-> NoExc]

\* The step ends in state after, computed once.
Becomes(after) ==
    \E s \in {after} :
        /\ store' = s.store
        /\ cache' = s.cache
        /\ queue' = s.queue
        /\ tasks' = s.tasks
        /\ exists' = s.exists
        /\ chName' = s.chName
        /\ voice' = s.voice
        /\ lastEvt' = s.lastEvt
        /\ nextId' = s.nextId
        /\ now' = s.now
        /\ guild' = s.guild
        /\ tz' = s.tz
        /\ presence' = s.presence
        /\ moves' = s.moves
        /\ cmds' = s.cmds
        /\ fails' = s.fails
        /\ spawned' = s.spawned
        /\ raised' = s.raised

\* An exception propagates out of the coroutine of task t.
Raise(s, t, exc) == [s EXCEPT !.tasks[t].pc = "raise", !.tasks[t].nm = exc]

\* voice_channel.members
MembersOf(s, ch) == SelectSeq(MemberOrder, LAMBDA m : s.voice[m] = ch)

\* ------------------------------------------------------- bot.py: the locks
\* A Lock object is told apart from the others by the task that holds it: a
\* task holds at most one Lock, and a free Lock that the cache has dropped is
\* garbage.  A cache entry names the holder of its Lock (NoTask: free).
CacheHit(c, key) == \E i \in DOMAIN c : c[i].key = key

CacheEntry(c, key) == c[CHOOSE i \in DOMAIN c : c[i].key = key]

\* lock(guild_id, channel_id) under lru_cache: a hit returns the cached Lock
\* and makes the key the most recent; a miss makes a new Lock and, when the
\* cache is full, drops the least recently used entry.
lock(c, key) ==
    IF CacheHit(c, key)
    THEN Append(SelectSeq(c, LAMBDA x : x.key # key), CacheEntry(c, key))
    ELSE LET c1 == Append(c, [key |-> key, holder |-> NoTask])
         IN IF Len(c1) > LockCacheSize THEN Tail(c1) ELSE c1

\* The cache with the Lock held by task t now held by task u.
Rehold(c, t, u) ==
    [i \in DOMAIN c |-> IF c[i].holder = t THEN [c[i] EXCEPT !.holder = u] ELSE c[i]]

\* async with lock(...): entered at once when the Lock is free, else the task
\* queues behind the holder and suspends.  The Lock looked up is the last
\* entry of the cache.
AsyncWithLock(s, t, key) ==
    LET c == lock(s.cache, key)
        h == c[Len(c)].holder
    IN IF h = NoTask
       THEN [s EXCEPT !.cache = [c EXCEPT ![Len(c)].holder = t],
                      !.tasks[t].cs = TRUE]
       ELSE [s EXCEPT !.cache = c, !.queue[h] = Append(@, t),
                      !.tasks[t].pc = "wait"]

\* Leaving the async with block: the Lock passes to the first waiter.
Release(s, t) ==
    LET q == s.queue[t]
    IN IF q = <<>>
       THEN [s EXCEPT !.cache = Rehold(s.cache, t, NoTask), !.tasks[t].cs = FALSE]
       ELSE [s EXCEPT !.cache = Rehold(s.cache, t, Head(q)),
                      !.queue[t] = <<>>,
                      !.queue[Head(q)] = Tail(q),
                      !.tasks[t].cs = FALSE,
                      !.tasks[Head(q)].cs = TRUE]

ReleaseIfDone(s, t) == IF s.tasks[t].pc = "run" THEN Release(s, t) ELSE s

\* Task t is inside a lock-guarded block (not queued for one).
InCS(t) == tasks[t].cs /\ tasks[t].pc # "wait"

\* ------------------------------------------------------ bot.py: the naming
\* One vote per member: its first playing or streaming activity, else General.
Vote(m) ==
    LET acts == Activities(m)
        hits == SelectSeq(acts, LAMBDA a : a.type \in {"playing", "streaming"})
    IN IF hits = <<>> THEN "General" ELSE Head(hits).name

\* Counter: the names in first-encountered order, and their counts.
RECURSIVE Tally(_, _)
Tally(members, seen) ==
    IF members = <<>> THEN seen
    ELSE LET v == Vote(Head(members))
         IN Tally(Tail(members),
                  IF v \in Range(seen) THEN seen ELSE Append(seen, v))

Count(members, name) ==
    Cardinality({i \in DOMAIN members : Vote(members[i]) = name})

\* most_common(1): the highest count, the first encountered among equals.
game_status_from_members(members) ==
    LET names == Tally(members, <<>>)
    IN IF names = <<>> THEN "General"
       ELSE names[Min({i \in DOMAIN names :
                \A k \in DOMAIN names :
                    Count(members, names[k]) <= Count(members, names[i])})]

\* spawn_channel's own choice: the last Game activity of members[0].
SpawnGame(member) ==
    LET games == SelectSeq(Activities(member), LAMBDA a : a.cls = "Game")
    IN IF games = <<>> THEN "General" ELSE games[Len(games)].name

\* update_channel_name: rename when the rendered name differs.  The rename
\* is awaited; a vanished channel makes voice_channel None and the attribute
\* access raises.
update_channel_name(s, t) ==
    LET rec == s.tasks[t].rec
        new == make_channel_name(rec, game_status_from_members(MembersOf(s, rec.id)))
    IN IF ~s.exists[rec.id] THEN Raise(s, t, "AttributeError")
       ELSE IF s.chName[rec.id] # new
            THEN [s EXCEPT !.tasks[t].pc = "rename", !.tasks[t].nm = new]
            ELSE s

\* ------------------------------------------------- bot.py: spawn_channel
\* Lines 33-55: up to the awaited clone.  members[0] raises IndexError on an
\* empty member tuple.
spawn_channel(s, t, members) ==
    LET spawner == s.tasks[t].rec
        kids == get_children(s.store, spawner)
        channel_numbers == [i \in DOMAIN kids |-> kids[i].channel_number]
        channel_number == next_channel_number(channel_numbers)
        new_config == [spawner EXCEPT !.channel_type = CHILD,
                                      !.spawner = spawner.id,
                                      !.channel_number = channel_number]
    IN IF members = <<>> THEN Raise(s, t, "IndexError")
       ELSE [s EXCEPT !.tasks[t].pc = "clone",
                      !.tasks[t].mems = members,
                      !.tasks[t].sibs = channel_numbers,
                      !.tasks[t].num = channel_number,
                      !.tasks[t].nm =
                          make_channel_name(new_config, SpawnGame(members[1]))]

\* Line 55 returned: the platform made the clone.  Then the position edit is
\* awaited.  The platform refuses the clone (HTTPException) when the source
\* channel is gone or the guild has its maximum of channels (MaxId).
AfterClone(s, t, ok) ==
    LET tk == s.tasks[t]
        id == s.nextId
    IN IF ~ok \/ id > MaxId \/ ~s.exists[tk.rec.id]
       THEN Raise(s, t, "HTTPException")
       ELSE [s EXCEPT !.exists[id] = TRUE,
                      !.chName[id] = tk.nm,
                      !.nextId = id + 1,
                      !.spawned = [m \in Members |->
                          IF m \in Range(tk.mems) /\ s.spawned[m] < 2
                          THEN s.spawned[m] + 1 ELSE s.spawned[m]],
                      !.tasks[t].pc = "edit",
                      !.tasks[t].newc = id,
                      !.tasks[t].nm = ""]

\* Line 56 returned; lines 57-60: insert the record, then await the first move.
AfterEdit(s, t, ok) ==
    LET tk == s.tasks[t]
        managed_channel ==
            [tk.rec EXCEPT !.id = tk.newc, !.channel_type = CHILD,
                           !.spawner = tk.rec.id, !.channel_number = tk.num]
    IN IF ~ok \/ ~s.exists[tk.newc] THEN Raise(s, t, "HTTPException")
       ELSE [s EXCEPT !.store = insert_channel(s.store, managed_channel),
                      !.tasks[t].pc = "move",
                      !.tasks[t].sibs = <<>>,
                      !.tasks[t].j = 1]

\* A move_to returned: the member is in the new channel; the next member's
\* move is awaited, or spawn_channel returns and the lock-guarded block ends.
AfterMove(s, t, ok) ==
    LET tk == s.tasks[t]
        m == tk.mems[tk.j]
    IN IF ~ok \/ s.voice[m] = 0 \/ ~s.exists[tk.newc]
       THEN Raise(s, t, "HTTPException")
       ELSE LET s1 == [s EXCEPT !.voice[m] = tk.newc,
                                !.lastEvt[m] = <<s.voice[m], tk.newc>>]
            IN IF tk.j < Len(tk.mems)
               THEN [s1 EXCEPT !.tasks[t].j = tk.j + 1]
               ELSE Release([s1 EXCEPT !.tasks[t].pc = "run"], t)

\* The platform deletes a channel: its occupants are disconnected.
PlatformDelete(s, id) ==
    [s EXCEPT !.exists[id] = FALSE,
              !.voice = [m \in Members |-> IF s.voice[m] = id THEN 0 ELSE s.voice[m]],
              !.lastEvt = [m \in Members |->
                  IF s.voice[m] = id THEN <<id, 0>> ELSE s.lastEvt[m]]]

\* The awaited delete is issued.
IssueDelete(s, t) ==
    [s EXCEPT !.tasks[t].pc = "delete"]

\* ---------------------------------------------- bot.py: on_channel_leave
\* Lines 196-204, under the lock, with the record read before the lock.
LeaveBody(s, t) ==
    LET rec == s.tasks[t].rec
    IN IF MembersOf(s, rec.id) # <<>>
       THEN ReleaseIfDone(update_channel_name(s, t), t)
       ELSE IF ~is_expired(rec, s.now) THEN Release(s, t)
       ELSE IssueDelete(s, t)

\* Lines 203-205 after the delete returned: NotFound is suppressed, then the
\* record is removed; remove_channel raises KeyError when it is absent.
LeaveAfterDelete(s, t, ok) ==
    LET rec == s.tasks[t].rec
        s1 == IF s.exists[rec.id] THEN PlatformDelete(s, rec.id) ELSE s
    IN IF ~ok THEN Raise(s, t, "HTTPException")
       ELSE IF HasChannel(s1.store, rec.id)
            THEN Release([s1 EXCEPT !.store = remove_channel(s1.store, rec.id),
                                    !.tasks[t].pc = "run"], t)
            ELSE Raise(s1, t, "KeyError")

\* The same without the return for a record that is not CHILD (lines 192-193).
on_channel_leave_any_type(s, t) ==
    LET managed_channel == get_channel(s.store, s.tasks[t].bef)
        s1 == AsyncWithLock([s EXCEPT !.tasks[t].rec = managed_channel,
                                      !.tasks[t].phase = "leave"],
                            t, managed_channel.id)
    IN IF managed_channel = NoRec THEN s
       ELSE IF s1.tasks[t].pc = "wait" THEN s1
       ELSE LeaveBody(s1, t)

\* Lines 186-195: the record is read, then the lock is taken.
on_channel_leave(s, t) ==
    LET managed_channel == get_channel(s.store, s.tasks[t].bef)
        s1 == AsyncWithLock([s EXCEPT !.tasks[t].rec = managed_channel,
                                      !.tasks[t].phase = "leave"],
                            t, managed_channel.id)
    IN IF managed_channel = NoRec THEN s
       ELSE IF managed_channel.channel_type # CHILD THEN s
       ELSE IF s1.tasks[t].pc = "wait" THEN s1
       ELSE LeaveBody(s1, t)

\* ----------------------------------------------- bot.py: on_channel_join
on_channel_join(s, t) ==
    LET managed_channel == get_channel(s.store, s.tasks[t].aft)
        s1 == AsyncWithLock([s EXCEPT !.tasks[t].rec = managed_channel,
                                      !.tasks[t].phase = "join"],
                            t, managed_channel.id)
    IN IF managed_channel = NoRec THEN s
       ELSE IF managed_channel.channel_type # SPAWNER THEN s
       ELSE IF s1.tasks[t].pc = "wait" THEN s1
       ELSE spawn_channel(s1, t, MembersOf(s1, managed_channel.id))

\* on_voice_state_update, lines 214-215: what follows on_channel_leave.
JoinPart(s, t) ==
    IF s.tasks[t].pc # "run" \/ s.tasks[t].aft = 0 THEN s
    ELSE on_channel_join(s, t)

on_voice_state_update(s, t) ==
    IF s.tasks[t].bef = s.tasks[t].aft THEN s
    ELSE JoinPart(IF s.tasks[t].bef # 0 THEN on_channel_leave(s, t) ELSE s, t)

\* --------------------------------------------------- bot.py: update_task
\* The block without its first branch (lines 448-456): no automated cleanup.
update_task_no_cleanup(s, t) ==
    LET channel == s.tasks[t].rec
        members == MembersOf(s, channel.id)
    IN IF channel.channel_type \in {CHILD, IMPORT}
       THEN ReleaseIfDone(update_channel_name(s, t), t)
       ELSE IF channel.channel_type = SPAWNER /\ members # <<>>
            THEN spawn_channel(s, t, members)
       ELSE Release(s, t)

\* Lines 447-464, under the lock, with the record of the pass's snapshot.
update_task_body(s, t) ==
    LET channel == s.tasks[t].rec
        members == MembersOf(s, channel.id)
    IN IF /\ channel.channel_type = CHILD
          /\ members = <<>>
          /\ is_expired(channel, s.now)
       THEN IssueDelete(s, t)
       ELSE IF channel.channel_type \in {CHILD, IMPORT}
            THEN ReleaseIfDone(update_channel_name(s, t), t)
       ELSE IF channel.channel_type = SPAWNER /\ members # <<>>
            THEN spawn_channel(s, t, members)
       ELSE Release(s, t)

\* Lines 453-456 after the delete returned: NotFound skips the removal, a
\* KeyError of the removal is suppressed.
UpdateAfterDelete(s, t, ok) ==
    LET rec == s.tasks[t].rec
        s1 == PlatformDelete(s, rec.id)
    IN IF ~ok THEN Raise(s, t, "HTTPException")
       ELSE IF ~s.exists[rec.id] THEN Release([s EXCEPT !.tasks[t].pc = "run"], t)
       ELSE IF HasChannel(s1.store, rec.id)
            THEN Release([s1 EXCEPT !.store = remove_channel(s1.store, rec.id),
                                    !.tasks[t].pc = "run"], t)
            ELSE Release([s1 EXCEPT !.tasks[t].pc = "run"], t)

\* An invalid record is left in the store.
keep_invalid(s, channel) == s

\* Lines 437-438 and 443-444: the record of an invalid channel is removed, a
\* KeyError of the removal is suppressed.
drop_invalid(s, channel) ==
    [s EXCEPT !.store = IF HasChannel(s.store, channel.id)
                        THEN remove_channel(s.store, channel.id)
                        ELSE s.store]

\* Lines 433-447: the for loop, from the next record of the snapshot on, until
\* the pass suspends, fails or ends.
RECURSIVE update_task_loop(_, _)
update_task_loop(s, t) ==
    IF s.tasks[t].pc # "run" \/ s.tasks[t].snap = <<>> THEN s
    ELSE LET channel == Head(s.tasks[t].snap)
             s1 == [s EXCEPT !.tasks[t].rec = channel,
                             !.tasks[t].snap = Tail(@),
                             !.tasks[t].phase = "pass"]
             s2 == AsyncWithLock(s1, t, channel.id)
         IN IF ~s.guild \/ ~s.exists[channel.id]
            THEN update_task_loop(drop_invalid(s1, channel), t)
            ELSE IF s2.tasks[t].pc = "wait" THEN s2
            ELSE update_task_loop(update_task_body(s2, t), t)

update_task(s, t) ==
    update_task_loop([s EXCEPT !.tasks[t].snap = scan(s.store),
                               !.tasks[t].pc = "run"], t)

\* ------------------------------------------------------- resuming a task
\* What follows the end of the lock-guarded block.
AfterBlock(s, t) ==
    IF s.tasks[t].pc # "run" THEN s
    ELSE IF s.tasks[t].phase = "leave" THEN JoinPart(s, t)
    ELSE IF s.tasks[t].phase = "pass" THEN update_task_loop(s, t)
    ELSE s

AfterRename(s, t, ok) ==
    LET tk == s.tasks[t]
    IN IF ~ok \/ ~s.exists[tk.rec.id] THEN Raise(s, t, "HTTPException")
       ELSE Release([s EXCEPT !.chName[tk.rec.id] = tk.nm,
                              !.tasks[t].nm = "",
                              !.tasks[t].pc = "run"], t)

\* The awaited platform call of task t returns (ok) or raises (~ok).
Returned(s, t, ok) ==
    LET tk == s.tasks[t]
    IN AfterBlock(
         CASE tk.pc = "rename" -> AfterRename(s, t, ok)
           [] tk.pc = "clone" -> AfterClone(s, t, ok)
           [] tk.pc = "edit" -> AfterEdit(s, t, ok)
           [] tk.pc = "move" -> AfterMove(s, t, ok)
           [] tk.pc = "delete" /\ tk.phase = "leave" -> LeaveAfterDelete(s, t, ok)
           [] tk.pc = "delete" /\ tk.phase = "pass" -> UpdateAfterDelete(s, t, ok),
         t)

\* The lock is handed to waiting task t: its block starts.
Granted(s, t) ==
    LET s1 == [s EXCEPT !.tasks[t].pc = "run"]
        tk == s.tasks[t]
    IN AfterBlock(
         CASE tk.phase = "leave" -> LeaveBody(s1, t)
           [] tk.phase = "join" -> spawn_channel(s1, t, MembersOf(s1, tk.rec.id))
           [] tk.phase = "pass" -> update_task_body(s1, t),
         t)

\* The segment of task t is over: a returned coroutine ends its task, an
\* exception leaves the lock-guarded block (releasing the lock) and ends the
\* task; the update loop sleeps after a pass and is dead after an exception.
Settle(s, t) ==
    LET tk == s.tasks[t]
        s1 == IF tk.cs THEN Release(s, t) ELSE s
        s2 == [s1 EXCEPT !.raised = [exc |-> tk.nm, kind |-> tk.kind,
                                     phase |-> tk.phase, left |-> Len(tk.snap)]]
    IN IF tk.pc = "run"
       THEN [s EXCEPT !.tasks[t] = IF tk.kind = "loop" THEN SleepingLoop ELSE IdleTask]
       ELSE IF tk.pc = "raise"
       THEN [s2 EXCEPT !.tasks[t] = IF tk.kind = "loop" THEN DeadLoop ELSE IdleTask]
       ELSE s

\* ---------------------------------------------------------------- actions
\* The state after construction: one spawner, one child of it named after
\* m1 in it, the update loop asleep.
Started ==
    [store |-> <<ManagedChannel(SpawnerId, DefaultTemplate, SPAWNER,
                                NoSpawner, NoNumber, NoHold),
                 ManagedChannel(FirstChild, DefaultTemplate, CHILD,
                                SpawnerId, FirstChildNumber, NoHold)>>,
     cache |-> <<>>,
     queue |-> [t \in Tasks |-> <<>>],
     tasks |-> [t \in Tasks |-> IF t = LoopTask THEN SleepingLoop ELSE IdleTask],
     exists |-> [i \in Ids |-> i \in {SpawnerId, FirstChild}],
     chName |-> [i \in Ids |-> IF i = SpawnerId THEN SpawnerName
                               ELSE IF i = FirstChild THEN "#2 Talk [Chess]"
                               ELSE ""],
     voice |-> [m \in Members |-> IF m = "m1" THEN FirstChild ELSE 0],
     lastEvt |-> [m \in Members |-> <<0, 0>>],
     nextId |-> FirstChild + 1,
     now |-> 0,
     guild |-> TRUE,
     tz |-> DefaultUtcOffset,
     presence |-> DefaultPresence,
     moves |-> 0,
     cmds |-> 0,
     fails |-> 0,
     spawned |-> [m \in Members |-> 0],
     raised |-> NoExc]

\* The variables hold state s.
Starts(s) ==
    /\ store = s.store
    /\ cache = s.cache
    /\ queue = s.queue
    /\ tasks = s.tasks
    /\ exists = s.exists
    /\ chName = s.chName
    /\ voice = s.voice
    /\ lastEvt = s.lastEvt
    /\ nextId = s.nextId
    /\ now = s.now
    /\ guild = s.guild
    /\ tz = s.tz
    /\ presence = s.presence
    /\ moves = s.moves
    /\ cmds = s.cmds
    /\ fails = s.fails
    /\ spawned = s.spawned
    /\ raised = s.raised

Init == Starts(Started)

\* The bot starts on a persisted store in which the record of channel 2 has
\* any type and any hold_until, at any time of the clock.
InitExpiry ==
    \E type \in {SPAWNER, CHILD, IMPORT}, hold \in {NoHold} \cup 0..MaxHold,
       n \in 0..MaxTime :
        LET channel ==
              CASE type = SPAWNER ->
                     ManagedChannel(FirstChild, DefaultTemplate, SPAWNER,
                                    NoSpawner, NoNumber, hold)
                [] type = CHILD ->
                     ManagedChannel(FirstChild, DefaultTemplate, CHILD,
                                    SpawnerId, FirstChildNumber, hold)
                [] type = IMPORT ->
                     ManagedChannel(FirstChild, <<Lit("#2 Talk [Chess]")>>, IMPORT,
                                    NoSpawner, 0, hold)
        IN Starts([Started EXCEPT !.store = <<Started.store[1], channel>>,
                                  !.now = n])

\* The bot starts on a persisted store in which the record of channel 2 is a
\* CHILD with any well-formed template (cbtemplate and cbrename store no
\* other) or an IMPORT with any template (cbimport stores the channel's name).
InitTemplate ==
    \E tpl \in Templates, type \in {CHILD, IMPORT} :
        LET channel ==
              IF type = CHILD
              THEN ManagedChannel(FirstChild, tpl, CHILD, SpawnerId,
                                  FirstChildNumber, NoHold)
              ELSE ManagedChannel(FirstChild, tpl, IMPORT, NoSpawner, 0, NoHold)
        IN /\ type = CHILD => WellFormed(tpl)
           /\ Starts([Started EXCEPT !.store = <<Started.store[1], channel>>])

\* The members have any activities.
InitPresence ==
    \E p \in [Members -> Presences] : Starts([Started EXCEPT !.presence = p])

\* A group of members has just joined the spawner of a guild that has no
\* other managed channel: their voice-state events are on the way.
InitJoined ==
    \E G \in SUBSET Members \ {{}} :
        Starts([Started EXCEPT
            !.store = <<Started.store[1]>>,
            !.exists = [i \in Ids |-> i = SpawnerId],
            !.chName = [i \in Ids |-> IF i = SpawnerId THEN SpawnerName ELSE ""],
            !.voice = [m \in Members |-> IF m \in G THEN SpawnerId ELSE 0],
            !.lastEvt = [m \in Members |->
                            IF m \in G THEN <<0, SpawnerId>> ELSE <<0, 0>>],
            !.nextId = FirstChild])

\* The bot process runs in any local time zone.
InitClock == \E z \in UtcOffsets : Starts([Started EXCEPT !.tz = z])

\* The elements of a set of numbers in ascending order.
RECURSIVE Ascending(_)
Ascending(S) == IF S = {} THEN <<>> ELSE <<Min(S)>> \o Ascending(S \ {Min(S)})

\* The bot starts on a persisted store: one spawner and children of it with
\* any set of channel_numbers, left by earlier spawns and deletions, and m1
\* in one of the channels or in none.
InitNumbering ==
    \E N \in SUBSET (1..MaxNumber), at \in 0..MaxId :
        LET nums == Ascending(N)
            kids == [i \in DOMAIN nums |->
                        ManagedChannel(SpawnerId + i, DefaultTemplate, CHILD,
                                       SpawnerId, nums[i], NoHold)]
        IN /\ Cardinality(N) < MaxId
           /\ at <= Cardinality(N) + 1
           /\ store = <<ManagedChannel(SpawnerId, DefaultTemplate, SPAWNER,
                                       NoSpawner, NoNumber, NoHold)>> \o kids
           /\ cache = <<>>
           /\ queue = [t \in Tasks |-> <<>>]
           /\ tasks = [t \in Tasks |-> IF t = LoopTask THEN SleepingLoop ELSE IdleTask]
           /\ exists = [i \in Ids |-> i <= Cardinality(N) + 1]
           /\ chName = [i \in Ids |->
                  IF i = SpawnerId THEN SpawnerName
                  ELSE IF i <= Cardinality(N) + 1
                       THEN make_channel_name(kids[i - 1], "General")
                       ELSE ""]
           /\ voice = [m \in Members |-> IF m = "m1" THEN at ELSE 0]
           /\ lastEvt = [m \in Members |-> <<0, 0>>]
           /\ nextId = Cardinality(N) + 2
           /\ now = 0
           /\ guild = TRUE
           /\ tz = DefaultUtcOffset
           /\ presence = DefaultPresence
           /\ moves = 0
           /\ cmds = 0
           /\ fails = 0
           /\ spawned = [m \in Members |-> 0]
           /\ raised = NoExc

FreeHandler == Min({t \in Handlers : tasks[t].kind = "idle"})

Awaiting(t) == tasks[t].pc \in {"rename", "clone", "edit", "move", "delete"}

\* A member connects to, moves between or leaves voice channels.
MemberMove(m, ch) ==
    /\ ch = 0 \/ (ch \in Ids /\ exists[ch])
    /\ ch # voice[m]
    /\ moves < MaxMoves
    /\ Becomes([St EXCEPT !.voice[m] = ch,
                          !.moves = moves + 1,
                          !.lastEvt[m] = <<voice[m], ch>>,
                          !.spawned[m] = 0])

\* The same, and the gateway loses the voice-state event: no handler will
\* ever hear of it.
MemberMoveLost(m, ch) ==
    /\ ch = 0 \/ (ch \in Ids /\ exists[ch])
    /\ ch # voice[m]
    /\ moves < MaxLostMoves
    /\ Becomes([St EXCEPT !.voice[m] = ch,
                          !.moves = moves + 1,
                          !.spawned[m] = 0])

\* The gateway delivers a member's latest voice-state change (late, or once
\* more): on_voice_state_update runs in a new task up to its first suspension.
Deliver(m) ==
    /\ lastEvt[m] # <<0, 0>>
    /\ \E t \in Handlers : tasks[t].kind = "idle"
    /\ LET t == FreeHandler
           s == [St EXCEPT !.tasks[t] =
                    [IdleTask EXCEPT !.kind = "vsu", !.pc = "run",
                                     !.bef = lastEvt[m][1], !.aft = lastEvt[m][2]]]
       IN Becomes(Settle(on_voice_state_update(s, t), t))

\* The gateway delivers a member's voice-state change, once.
DeliverOnce(m) ==
    /\ lastEvt[m] # <<0, 0>>
    /\ \E t \in Handlers : tasks[t].kind = "idle"
    /\ LET t == FreeHandler
           s == [St EXCEPT !.lastEvt[m] = <<0, 0>>,
                           !.tasks[t] =
                    [IdleTask EXCEPT !.kind = "vsu", !.pc = "run",
                                     !.bef = lastEvt[m][1], !.aft = lastEvt[m][2]]]
       IN Becomes(Settle(on_voice_state_update(s, t), t))

\* update_loop: the sleep is over, the next pass starts.  (on_ready runs the
\* same update_task once more; the model leaves that extra pass out.)
LoopWake ==
    /\ tasks[LoopTask].pc = "sleep"
    /\ Becomes(Settle(update_task(St, LoopTask), LoopTask))

\* The platform call a task awaits returns; it raises when the guild is out
\* of the bot's reach.
PlatformReturns(t) ==
    /\ Awaiting(t)
    /\ Becomes(Settle(Returned(St, t, guild), t))

\* The platform call a task awaits raises (an HTTP error).
PlatformFails(t) ==
    /\ Awaiting(t)
    /\ fails < MaxFails
    /\ Becomes(Settle(Returned([St EXCEPT !.fails = fails + 1], t, FALSE), t))

\* A task that waited for a lock now holds it and runs its block.
LockGranted(t) ==
    /\ tasks[t].pc = "wait"
    /\ tasks[t].cs
    /\ Becomes(Settle(Granted(St, t), t))

Tick ==
    /\ now < MaxTime
    /\ Becomes([St EXCEPT !.now = now + 1])

\* cbhold, lines 343-373, by a member in a voice channel: no await before the
\* store is written.  now is datetime.utcnow().timestamp(), the clock of
\* is_expired.  Lines 368-371 read the naive UTC datetime of the previous
\* hold_until back with timestamp(), which takes it for local time: the
\* process's UTC offset is subtracted.
hold_channel(m, d) ==
    LET managed_channel == get_channel(store, voice[m])
        hold == IF managed_channel.hold_until = NoHold THEN now + d
                ELSE managed_channel.hold_until + d - tz
    IN /\ voice[m] # 0
       /\ managed_channel # NoRec
       /\ managed_channel.channel_type = CHILD
       /\ hold >= 0
       /\ hold <= MaxHold
       /\ cmds < MaxCommands
       /\ Becomes([St EXCEPT !.cmds = cmds + 1, !.store =
              insert_channel(store, [managed_channel EXCEPT !.hold_until = hold])])

\* cborphan, lines 418-424.
orphan_channel(m) ==
    /\ voice[m] # 0
    /\ HasChannel(store, voice[m])
    /\ cmds < MaxCommands
    /\ Becomes([St EXCEPT !.cmds = cmds + 1, !.store = remove_channel(store, voice[m])])

\* cbimport, lines 391-404.
import_channel(m) ==
    /\ voice[m] # 0
    /\ ~HasChannel(store, voice[m])
    /\ cmds < MaxCommands
    /\ Becomes([St EXCEPT !.cmds = cmds + 1, !.store = insert_channel(store,
           ManagedChannel(voice[m], <<Lit(chName[voice[m]])>>, IMPORT,
                          NoSpawner, 0, NoHold))])

\* A user deletes a voice channel on the platform.
ChannelRemoved(c) ==
    /\ exists[c]
    /\ cmds < MaxCommands
    /\ Becomes(PlatformDelete([St EXCEPT !.cmds = cmds + 1], c))

\* The guild is deleted or the bot is removed from it: bot.get_guild returns
\* None from now on.
GuildGone ==
    /\ guild
    /\ Becomes([St EXCEPT !.guild = FALSE])

Move == \E m \in Members, ch \in {0} \cup Ids : MemberMove(m, ch)
Lost == \E m \in Members, ch \in {0} \cup Ids : MemberMoveLost(m, ch)
Event == \E m \in Members : Deliver(m)
EventOnce == \E m \in Members : DeliverOnce(m)
Return == \E t \in Tasks : PlatformReturns(t)
Failure == \E t \in Tasks : PlatformFails(t)
Grant == \E t \in Tasks : LockGranted(t)
Hold == \E m \in Members, d \in HoldDurations : hold_channel(m, d)
Orphan == \E m \in Members : orphan_channel(m)
Import == \E m \in Members : import_channel(m)
Removed == \E c \in Ids : ChannelRemoved(c)

\* Events are delivered and the update loop runs; platform calls succeed and
\* no command is given.
Next == Move \/ Event \/ LoopWake \/ Return \/ Grant

Spec == Init /\ [][Next]_vars

\* Reconciliation alone: no voice-state event is delivered, commands are given,
\* time passes and platform calls may fail.
NextRecon ==
    Move \/ LoopWake \/ Return \/ Failure \/ Tick \/ Hold \/ Orphan \/ Import

SpecRecon == Init /\ [][NextRecon]_vars

\* The same with every voice-state event delivered once.
NextNaming == Move \/ EventOnce \/ LoopWake \/ Return \/ Grant

SpecNaming == Init /\ [][NextNaming]_vars

\* The writers of the store: the update loop and the commands; no voice-state
\* event reaches the bot.
NextStore == Lost \/ LoopWake \/ Return \/ Hold \/ Orphan \/ Import

SpecStore == Init /\ [][NextStore]_vars

\* Expiry of every kind of record as the clock advances and holds are placed;
\* no voice-state event reaches the bot.
NextExpiry == Lost \/ Tick \/ Hold \/ LoopWake \/ Return

SpecExpiry == InitExpiry /\ [][NextExpiry]_vars

\* Holds placed by a bot in any time zone.
SpecClock == InitClock /\ [][NextExpiry]_vars

\* Reconciliation while the platform changes under it: users delete channels
\* and the guild goes away; no voice-state event is delivered.
NextDrift == Move \/ LoopWake \/ Return \/ Removed \/ GuildGone

SpecDrift == Init /\ [][NextDrift]_vars

\* The numbering of spawn_channel over every set of sibling numbers: members
\* move, the update loop spawns and deletes, platform calls succeed.
NextNumbering == Move \/ LoopWake \/ Return

SpecNumbering == InitNumbering /\ [][NextNumbering]_vars

\* Spawns for members with any activities.
SpecPresence == InitPresence /\ [][NextNumbering]_vars

\* Channels with any template are renamed by the update loop.
SpecTemplate == InitTemplate /\ [][NextNumbering]_vars

\* The two fairness conditions below are weak fairness of LoopWake and of
\* Return, with the enabling condition of each action written out as a state
\* predicate.
\* The present state with the exception report it shows.
Now == [St EXCEPT !.raised = raised]

\* ENABLED <<LoopWake>>_vars: the loop sleeps and its next pass changes
\* something.
LoopWakeEnabled ==
    /\ tasks[LoopTask].pc = "sleep"
    /\ Settle(update_task(St, LoopTask), LoopTask) # Now

\* ENABLED <<Return>>_vars: a task awaits a platform call.
ReturnEnabled == \E t \in Tasks : Awaiting(t)

\* What no step of a task changes: the members' own moves, the commands
\* given and the clock.
EnvUnchanged == UNCHANGED <<moves, cmds, now>>

\* WF_vars(LoopWake): async_loop calls update_task again after every sleep.
\* (EnvUnchanged is implied by LoopWake; it goes first to tell the steps of
\* the environment apart at once.)
LoopKeepsRunning ==
    []<>(~LoopWakeEnabled) \/ []<><<EnvUnchanged /\ LoopWake>>_vars

\* WF_vars(Return): every awaited platform call returns.
PlatformCallsReturn ==
    []<>(~ReturnEnabled) \/ []<><<EnvUnchanged /\ Return>>_vars

\* Reconciliation with no event delivered and no failing platform call, under
\* the two fairness conditions above.
NextLive == Lost \/ LoopWake \/ Return \/ Tick \/ Hold

LiveSpec ==
    Init /\ [][NextLive]_vars /\ LoopKeepsRunning /\ PlatformCallsReturn

\* ENABLED <<EventOnce>>_vars: an event is on the way and a handler task can
\* be made for it.
EventEnabled ==
    /\ \E m \in Members : lastEvt[m] # <<0, 0>>
    /\ \E t \in Handlers : tasks[t].kind = "idle"

\* ENABLED <<Grant>>_vars: a waiting task has been handed its lock.
GrantEnabled == \E t \in Tasks : tasks[t].pc = "wait" /\ tasks[t].cs

\* WF_vars(EventOnce): the gateway delivers every voice-state event.
EventsDelivered ==
    []<>(~EventEnabled) \/ []<><<EnvUnchanged /\ EventOnce>>_vars

\* WF_vars(Grant): a task that was handed a lock runs.
LocksGranted ==
    []<>(~GrantEnabled) \/ []<><<EnvUnchanged /\ Grant>>_vars

\* After the join: events are delivered once, the update loop runs and the
\* platform calls return; no member moves, no command is given and no call
\* fails.
NextQuiet == EventOnce \/ LoopWake \/ Return \/ Grant

SpecQuiet ==
    /\ InitJoined /\ [][NextQuiet]_vars
    /\ EventsDelivered /\ LocksGranted /\ LoopKeepsRunning /\ PlatformCallsReturn

\* ------------------------------------------------------------------ claims
\* C1: for every identity at most one task holds the lock of that identity
\* at any time, however many identities have been locked.
MutualExclusion ==
    \A t \in Tasks, u \in Tasks :
        (t # u /\ InCS(t) /\ InCS(u)) => tasks[t].rec.id # tasks[u].rec.id

\* C2: no two CHILD records of the same spawner have the same channel_number.
UniqueChildNumbers ==
    \A i \in DOMAIN store, k \in DOMAIN store :
        (/\ i # k
         /\ store[i].channel_type = CHILD
         /\ store[k].channel_type = CHILD
         /\ store[i].spawner = store[k].spawner)
        => store[i].channel_number # store[k].channel_number

\* The smallest positive integer that is not in S.
SmallestUnused(S) == Min({n \in 1..(Cardinality(S) + 1) : n \notin S})

Spawning(t) == tasks[t].pc = "clone"

\* C3: the number spawn_channel assigns is the smallest positive integer not
\* among the channel_numbers of the children it read; a number freed by a
\* destroyed child is used again.
SmallestNumberAssigned ==
    \A t \in Tasks :
        Spawning(t) => tasks[t].num = SmallestUnused(Range(tasks[t].sibs))

\* Children {1, 2}, child 2 destroyed, the next spawn reads {1} and assigns 2.
GapReused ==
    \E t \in Tasks, i \in Ids :
        /\ Spawning(t)
        /\ tasks[t].sibs = <<1>>
        /\ tasks[t].num = 2
        /\ i < nextId /\ ~exists[i] /\ ~HasChannel(store, i)
        /\ chName[i] = "#2 Talk [General]"

\* C4: for one group of occupants of a spawner at most one child is created.
NoDoubleSpawn == \A m \in Members : spawned[m] <= 1

IssuesDelete(t) == tasks[t].pc # "delete" /\ tasks'[t].pc = "delete"

\* The task waited for the lock of its identity while another transition was
\* inside, and runs its block in this step: it is the transition that runs
\* second.
RunsSecond(t) == tasks[t].pc = "wait" /\ tasks[t].cs

\* C5: the transition that runs second on a child issues no platform delete
\* for a child the first has already deleted, and no transition fails by
\* removing a record that is already absent (KeyError).
NoDoubleDelete ==
    /\ [](raised.exc # "KeyError")
    /\ [][\A t \in Tasks :
            (RunsSecond(t) /\ IssuesDelete(t)) => exists[tasks'[t].rec.id]]_vars

\* The task is inside its critical section on a record it took up in this
\* step, and awaits its first platform call there.
TakesUp(t) ==
    /\ tasks'[t].cs
    /\ tasks'[t].phase \in {"leave", "pass"}
    /\ tasks'[t].pc \in {"rename", "clone", "delete"}
    /\ tasks[t].pc \in {"idle", "sleep", "wait"} \/ tasks[t].rec # tasks'[t].rec

\* C6: the record on_channel_leave or the update_task step consults inside
\* its critical section is the store's current record of that identity.
NoStaleDecision ==
    [][\A t \in Tasks :
         TakesUp(t) => tasks'[t].rec = get_channel(store', tasks'[t].rec.id)]_vars

\* C7: when a platform delete is issued for a child, the hold_until the store
\* has for that identity is unset or not later than the current time.
HeldChildNeverDestroyed ==
    [][\A t \in Tasks :
         IssuesDelete(t) =>
            LET stored == get_channel(store', tasks'[t].rec.id)
            IN stored.hold_until = NoHold \/ stored.hold_until <= now']_vars

\* The record of c is a CHILD that is expired, and c has no occupant.
EmptyExpiredChild(c) ==
    /\ HasChannel(store, c)
    /\ get_channel(store, c).channel_type = CHILD
    /\ is_expired(get_channel(store, c), now)
    /\ \A m \in Members : voice[m] # c

\* The platform resource of c is deleted and its record is removed.
Gone(c) == ~exists[c] /\ ~HasChannel(store, c)

\* update_loop has ended with an exception: the loop no longer runs.
LoopStopped == tasks[LoopTask].pc = "dead"

\* C8: a CHILD that is empty and expired and stays so is eventually deleted
\* on the platform and removed from the store, with no leave event delivered,
\* as long as the update loop keeps running: no record stays an empty expired
\* CHILD for ever.
SelfHealingDestruction ==
    \A c \in Ids :
        []<>(Gone(c) \/ ~EmptyExpiredChild(c) \/ LoopStopped)

\* m1 left the child on its own, no event was delivered, and the child is gone.
SelfHealed ==
    /\ Gone(FirstChild)
    /\ voice["m1"] = 0
    /\ lastEvt["m1"] = <<0, 0>>
    /\ tasks[LoopTask].pc = "sleep"

\* C9: no platform delete is issued for a live resource whose current store
\* record is an IMPORT.
ImportNeverDestroyed ==
    [][\A t \in Tasks :
         IssuesDelete(t) =>
            ~(/\ exists[tasks'[t].rec.id]
              /\ get_channel(store', tasks'[t].rec.id).channel_type = IMPORT)]_vars

\* C10: a platform call that fails in update_task leaves no record of the
\* pass's snapshot unprocessed.
FailureIsolated ==
    (raised.kind = "loop" /\ raised.exc = "HTTPException") => raised.left = 0

\* The spawn_channel that task t runs fails in this step: the platform call it
\* awaited (clone, position edit or move) raises and ends the task.
SpawnFails(t) ==
    /\ tasks[t].pc \in {"clone", "edit", "move"}
    /\ tasks'[t].pc \in {"idle", "dead"}
    /\ raised'.exc # ""

\* A CHILD record of channel c is in the store after this step and was not
\* before: spawn_channel inserted it.
ChildInserted(c) ==
    /\ ~HasChannel(store, c)
    /\ HasChannel(store', c)
    /\ get_channel(store', c).channel_type = CHILD

\* C11: after a spawn_channel that failed the store holds no record of the
\* new child, and a CHILD record is inserted only for a channel the platform
\* has created.
NoPartialRecord ==
    [][/\ \A t \in Tasks :
            SpawnFails(t) =>
                tasks[t].newc = 0 \/ ~HasChannel(store', tasks[t].newc)
       /\ \A c \in Ids : ChildInserted(c) => exists[c]]_vars

\* The records of the pass's snapshot that are still to be processed.
Remaining ==
    IF tasks[LoopTask].pc = "sleep" THEN scan(store) ELSE tasks[LoopTask].snap

\* A step of the update loop: the environment (members, users, the clock, the
\* guild) does nothing in it.
LoopStep == EnvUnchanged /\ guild' = guild /\ tasks'[LoopTask].pc # "dead"

\* The pass went past record r in this step: r was still to be processed, is
\* no longer, and is not the record the pass is working on.
PassedOver(r) ==
    /\ r \in Range(Remaining)
    /\ r \notin Range(tasks'[LoopTask].snap)
    /\ ~(Awaiting(LoopTask)' /\ tasks'[LoopTask].rec = r)

\* The guild or the voice channel of record r no longer exists.
Invalid(r) == ~guild \/ ~exists[r.id]

\* C12: update_task removes the record of a channel whose guild or whose voice
\* channel no longer exists, issues no platform call for it and goes on with
\* the next record.
DriftRemoved ==
    [][LoopStep =>
         \A r \in Range(Remaining) :
            /\ (PassedOver(r) /\ Invalid(r)) => ~HasChannel(store', r.id)
            /\ (Awaiting(LoopTask)' /\ tasks'[LoopTask].rec = r) => ~Invalid(r)]_vars

\* A user deleted the occupied child 2, and a pass dropped its record.
DriftDropped ==
    /\ ~exists[FirstChild]
    /\ ~HasChannel(store, FirstChild)
    /\ HasChannel(store, SpawnerId)
    /\ moves = 0
    /\ tasks[LoopTask].pc = "sleep"

\* The delete task t awaited has come back in this step with the platform's
\* answer that the channel is already gone (NotFound).
DeleteFoundGone(t) ==
    /\ tasks[t].pc = "delete"
    /\ tasks'[t] # tasks[t]
    /\ ~exists[tasks[t].rec.id]
    /\ guild
    /\ raised'.exc # "HTTPException"

\* C13: when the delete of an empty, expired CHILD finds the channel already
\* gone, the record is removed from the store within that same transition, in
\* on_channel_leave and in update_task.
AlreadyGoneRemoves ==
    [][\A t \in Tasks :
          DeleteFoundGone(t) => ~HasChannel(store', tasks[t].rec.id)]_vars

\* The voice-state change of member m is handed to on_voice_state_update in
\* this step.
Delivered(m) == lastEvt[m] # <<0, 0>> /\ lastEvt'[m] = <<0, 0>>

\* Channel c has a CHILD or IMPORT record and is occupied.
OccupiedManaged(c) ==
    /\ c # 0
    /\ HasChannel(store, c)
    /\ get_channel(store, c).channel_type \in {CHILD, IMPORT}
    /\ MembersOf(St, c) # <<>>

\* The name of channel c is not what its record renders for its occupants.
Stale(c) ==
    chName[c] # make_channel_name(get_channel(store, c),
                                  game_status_from_members(MembersOf(St, c)))

\* A handler started in this step has issued a rename of channel c, or waits
\* for the lock of c.
RenameIssued(c) ==
    \E t \in Handlers :
        /\ tasks[t].kind = "idle"
        /\ tasks'[t].pc \in {"rename", "wait"}
        /\ tasks'[t].rec.id = c

\* C14: when a member joins or leaves a CHILD or IMPORT channel that is still
\* occupied, the event handler issues a rename exactly when the name rendered
\* from the current occupants differs from the channel's name.
RenameOnOccupancyChange ==
    [][\A m \in Members :
          Delivered(m) =>
              \A c \in {lastEvt[m][1], lastEvt[m][2]} :
                  OccupiedManaged(c) => (Stale(c) <=> RenameIssued(c))]_vars

\* hold_until of record rec is unset or has passed.
HoldOver(rec) == rec.hold_until = NoHold \/ now >= rec.hold_until

\* C15: is_expired is false for an IMPORT record whatever its hold_until; for
\* a SPAWNER or CHILD record it is true exactly when hold_until is unset or
\* now >= hold_until.
ExpiryRule ==
    \A i \in DOMAIN store :
        /\ store[i].channel_type = IMPORT => ~is_expired(store[i], now)
        /\ store[i].channel_type \in {SPAWNER, CHILD} =>
              (is_expired(store[i], now) <=> HoldOver(store[i]))

\* An IMPORT record whose hold_until has passed, after a member's move.
ImportPastHold ==
    \E i \in DOMAIN store :
        /\ store[i].channel_type = IMPORT
        /\ store[i].hold_until # NoHold
        /\ now >= store[i].hold_until
        /\ moves > 0

\* A cbhold has written the store in this step.
HoldStep == cmds' = cmds + 1

\* The step is a hold of duration d on the CHILD record of channel c as the
\* claim describes it: hold_until counts from now when unset and from its
\* previous value when set, nothing else changes.
HeldBy(c, d) ==
    LET old == get_channel(store, c)
        new == [old EXCEPT !.hold_until =
                   IF old.hold_until = NoHold THEN now + d
                   ELSE old.hold_until + d]
    IN /\ HasChannel(store, c)
       /\ old.channel_type = CHILD
       /\ Range(store') = (Range(store) \ {old}) \cup {new}

\* C16: a cbhold of duration d on a CHILD stores hold_until = now + d when
\* hold_until was unset and hold_until = previous hold_until + d when it was
\* set; no other field and no other record changes.
HoldAccumulates ==
    [][HoldStep => \E c \in Ids, d \in HoldDurations : HeldBy(c, d)]_vars

\* The store holds at most one record for each identity.
StoreKeyed ==
    \A i, k \in DOMAIN store : store[i].id = store[k].id => i = k

\* The record of identity c is another one after this step.
Replaced(c) ==
    /\ HasChannel(store, c)
    /\ HasChannel(store', c)
    /\ get_channel(store', c) # get_channel(store, c)

\* For an absent identity get_channel finds no record and remove_channel
\* leaves the store as it is.
AbsentUntouched ==
    \A c \in Ids :
        ~HasChannel(store, c) =>
            get_channel(store, c) = NoRec /\ remove_channel(store, c) = store

\* C17: the store holds at most one record for each identity; an insert for
\* an identity already present replaces the old record and leaves the records
\* of other identities unchanged; remove_channel and get_channel for an absent
\* identity leave the store unchanged.
OneRecordPerIdentity ==
    /\ StoreKeyed
    /\ [][/\ StoreKeyed'
          /\ AbsentUntouched'
          /\ \A c \in Ids :
                Replaced(c) =>
                    /\ get_channel(store, c) \notin Range(store')
                    /\ \A k \in Ids \ {c} :
                          get_channel(store', k) = get_channel(store, k)]_vars

\* A cbhold has replaced the record of child 2: one record, with the hold.
RecordReplaced ==
    /\ Cardinality({i \in DOMAIN store : store[i].id = FirstChild}) = 1
    /\ get_channel(store, FirstChild).hold_until # NoHold
    /\ cmds > 0

\* The games a channel name is rendered with.
GameNames == {"General", "Chess"}

\* C18: make_channel_name never fails: for a well-formed template it returns
\* the template with no and game substituted, for a malformed template or
\* one with an unknown placeholder it returns the template string unchanged.
RenderingTotal ==
    \A i \in DOMAIN store, game \in GameNames :
        LET name == make_channel_name(store[i], game)
        IN /\ name \notin {"ValueError", "KeyError"}
           /\ WellFormed(store[i].template) =>
                 name = Substitute(store[i].template, store[i].channel_number, game)
           /\ ~WellFormed(store[i].template) =>
                 name = RawTemplate(store[i].template)

\* A pass has renamed a channel whose template is not well-formed to the
\* template string.
RawNameGiven ==
    \E i \in DOMAIN store :
        /\ ~WellFormed(store[i].template)
        /\ chName[store[i].id] = RawTemplate(store[i].template)
        /\ tasks[LoopTask].pc = "sleep"

\* C19: the name of a newly spawned child is rendered with the game that
\* game_status_from_members gives for the triggering occupants: the majority
\* of their playing or streaming activities, General for those with none.
SpawnNamedByVote ==
    \A t \in Tasks :
        Spawning(t) =>
            tasks[t].nm =
                make_channel_name(
                    [tasks[t].rec EXCEPT !.channel_number = tasks[t].num],
                    game_status_from_members(tasks[t].mems))

\* C20: when spawn_channel inserts a CHILD record, the store holds a SPAWNER
\* record for the identity the child's spawner reference names, whatever runs
\* in between, a cborphan of the spawner included.
SpawnerPresentAtInsert ==
    [][\A c \in Ids :
          ChildInserted(c) =>
              get_channel(store', get_channel(store', c).spawner).channel_type
                  = SPAWNER]_vars

\* Task t has issued a platform delete in this step.
DeleteIssued(t) == tasks'[t].pc = "delete" /\ tasks'[t] # tasks[t]

\* C21: whenever on_channel_leave or update_task issues a platform delete for
\* a channel, the store at that moment holds a CHILD record of that channel;
\* a channel orphaned by cborphan in the meantime is not deleted.
DeletesOnlyManagedChildren ==
    [][\A t \in Tasks :
          DeleteIssued(t) =>
              get_channel(store', tasks'[t].rec.id).channel_type = CHILD]_vars

\* The CHILD records of the store, and the channels there are besides the
\* spawner.
ChildRecords == {i \in DOMAIN store : store[i].channel_type = CHILD}

NewChannels == {c \in Ids \ {SpawnerId} : exists[c]}

\* No second child: at most one channel and one CHILD record were made.
OneChildAtMost ==
    Cardinality(NewChannels) <= 1 /\ Cardinality(ChildRecords) <= 1

\* Nothing is deleted in this step and no delete is awaited after it.
NothingDeleted ==
    /\ \A c \in Ids : exists[c] => exists'[c]
    /\ \A t \in Tasks : tasks'[t].pc # "delete"

\* A rename issued in this step is one of a channel whose name is not what
\* its record renders for its occupants.
RenameOnlyWhenStale ==
    \A t \in Tasks, c \in Ids :
        (/\ tasks'[t].pc = "rename"
         /\ tasks[t].pc # "rename"
         /\ tasks'[t].rec.id = c) => Stale(c)'

\* The stable state: one new child, recorded as CHILD, holds every member who
\* joined; its name is the rendered one; every handler has ended, no event is
\* on the way and the update loop sleeps.
Settled ==
    /\ Cardinality(NewChannels) = 1
    /\ Cardinality(ChildRecords) = 1
    /\ \A m \in Members :
          voice[m] # 0 =>
              /\ voice[m] \in NewChannels
              /\ get_channel(store, voice[m]).channel_type = CHILD
              /\ ~Stale(voice[m])
    /\ \A m \in Members : lastEvt[m] = <<0, 0>>
    /\ \A t \in Handlers : tasks[t] = IdleTask
    /\ tasks[LoopTask] = SleepingLoop

====
